---- MODULE Spec2Model ----
(***************************************************************************)
(* Model of the ECG processing pipeline of ECG_IOT_PROJ                    *)
(* (src/ECG_IOT_PROJ/ecg_processing.py, configured by config.py).          *)
(*                                                                         *)
(* Conventions                                                             *)
(*  - A Python value that may be None is a record [isNone, data]; data is  *)
(*    the array as a TLA+ sequence (x[i+1] is Python's x[i]).              *)
(*  - Peak indices keep Python's 0-based numbering.                        *)
(*  - Amplitudes are integers.  Cut-off frequencies are held in half-Hz    *)
(*    units, so that lowcut / (0.5 * fs) is the exact ratio lowcut / fs.   *)
(*  - Real-valued results are exact rationals [num, den] with den > 0;     *)
(*    a metric that is a square root holds the rational under the root.    *)
(*  - A function whose result the build does not fix (the digital filter's *)
(*    output samples, the order in which an unstable sort visits equal     *)
(*    peaks) is an operator that returns the SET of possible results.      *)
(***************************************************************************)
EXTENDS Integers, Sequences, FiniteSets, TLC

VARIABLES
    config,           \* the module-level parameters of config.py
    pc,               \* position in the function being executed
    raw_ecg_signal,   \* process_ecg_data / butter_bandpass_filter argument
    filtered_ecg,     \* filter result, detect_r_peaks argument
    min_distance,     \* detect_r_peaks' local min_distance_samples (0: not computed)
    r_peaks,          \* detect_r_peaks result, calculate_rr_intervals argument
    rr_intervals,     \* calculate_rr_intervals result, calculate_hrv_metrics argument
    hrv_metrics,      \* calculate_hrv_metrics result
    calls,            \* the stage functions invoked so far, in order
    result            \* what process_ecg_data returned (or raised)

vars == <<config, pc, raw_ecg_signal, filtered_ecg, min_distance, r_peaks,
          rr_intervals, hrv_metrics, calls, result>>

(***************************************************************************)
(* Bounds of the model                                                     *)
(***************************************************************************)
\* largest amplitude of a sample of the periodic signals (samples are 0..AmpMax)
AmpMax == 1
\* longest period of the periodic input signals given to the pipeline
MaxPeriod == 3
\* longest input buffer given to the pipeline and to the filter
MaxLen == 11
\* detect_r_peaks on its own is given every sequence over 0..PeakAmpMax of
\* length 0..MaxSigLen
PeakAmpMax == 2
MaxSigLen == 7
\* detect_r_peaks on its own runs at 1..MaxPeakRate Hz with 60 bpm as the maximum
\* heart rate, which makes the peak distance 1..MaxPeakRate samples
MaxPeakRate == 3
\* largest sampling rate of the small configurations
MaxRate == 4
\* largest peak index given to calculate_rr_intervals on its own
MaxPeakIdx == 5
\* longest RR series given to calculate_hrv_metrics on its own
MaxRRLen == 3

(***************************************************************************)
(* Python values                                                           *)
(***************************************************************************)
None == [isNone |-> TRUE, data |-> <<>>]

Array(s) == [isNone |-> FALSE, data |-> s]

Max(a, b) == IF a >= b THEN a ELSE b

Min(a, b) == IF a <= b THEN a ELSE b

Abs(a) == IF a < 0 THEN -a ELSE a

RECURSIVE Gcd(_, _)
Gcd(a, b) == IF b = 0 THEN a ELSE Gcd(b, a % b)

\* the rational n/d (d # 0) in lowest terms with a positive denominator
Rat(n, d) ==
    LET g == Gcd(Abs(n), Abs(d))
        s == IF d < 0 THEN -1 ELSE 1
    IN  [num |-> (s * n) \div g, den |-> (s * d) \div g]

RAdd(a, b) ==
    LET l == (a.den \div Gcd(a.den, b.den)) * b.den
    IN  Rat(a.num * (l \div a.den) + b.num * (l \div b.den), l)

RSub(a, b) == RAdd(a, [num |-> -b.num, den |-> b.den])

RMul(a, b) ==
    LET g1 == Gcd(Abs(a.num), b.den)
        g2 == Gcd(Abs(b.num), a.den)
    IN  Rat((a.num \div g1) * (b.num \div g2), (a.den \div g2) * (b.den \div g1))

RDivInt(a, k) == LET g == Gcd(Abs(a.num), k) IN Rat(a.num \div g, a.den * (k \div g))

RGreater(a, b) == a.num * b.den > b.num * a.den

RECURSIVE RSum(_)
RSum(s) == IF s = <<>> THEN Rat(0, 1) ELSE RAdd(Head(s), RSum(Tail(s)))

(***************************************************************************)
(* config.py                                                               *)
(***************************************************************************)
\* PEAK_HEIGHT_THRESHOLD_MULTIPLIER = 0.7 = ThresholdNum / ThresholdDen
ThresholdNum == 7
ThresholdDen == 10

\* the shipped values: 250 Hz, 0.5 Hz and 40 Hz (in half-Hz), order 3, 220 bpm
DefaultRate == 250
DefaultLowcut == 1
DefaultHighcut == 80
DefaultOrder == 3
DefaultMaxHr == 220

Config(fs, lo, hi, ord, hr) ==
    [SAMPLING_RATE_HZ |-> fs, FILTER_LOWCUT_HZ |-> lo, FILTER_HIGHCUT_HZ |-> hi,
     FILTER_ORDER |-> ord, MAX_HR_BPM_FOR_PEAK_DISTANCE |-> hr]

DefaultConfig ==
    Config(DefaultRate, DefaultLowcut, DefaultHighcut, DefaultOrder, DefaultMaxHr)


(***************************************************************************)
(* Inputs                                                                  *)
(***************************************************************************)
\* the first n samples of the periodic repetition of pattern p
Tile(p, n) == [i \in 1..n |-> p[((i - 1) % Len(p)) + 1]]

Patterns == UNION {[1..k -> 0..AmpMax] : k \in 1..MaxPeriod}

\* the sample buffers of the model: periodic signals of 0..MaxLen samples
Signals == {Tile(p, n) : p \in Patterns, n \in 0..MaxLen}

Rates == (0 - 1)..MaxRate

Orders == {1, DefaultOrder}

\* (lowcut, highcut) in half-Hz: a narrow valid band, the shipped band, and the
\* crossed band 40 Hz / 0.5 Hz
Cuts == {<<1, 2>>, <<DefaultLowcut, DefaultHighcut>>, <<DefaultHighcut, DefaultLowcut>>}

(***************************************************************************)
(* butter_bandpass_filter                                                  *)
(***************************************************************************)
\* nyquist = 0.5 * fs; low = lowcut / nyquist divides by zero when fs = 0
FilterRaises(cfg) == cfg.SAMPLING_RATE_HZ = 0

\* low = lowcut / nyquist and high = highcut / nyquist as exact rationals
LowCorner(cfg) == Rat(cfg.FILTER_LOWCUT_HZ, cfg.SAMPLING_RATE_HZ)

HighCorner(cfg) == Rat(cfg.FILTER_HIGHCUT_HZ, cfg.SAMPLING_RATE_HZ)


\* a corner test that forgets the crossed band (low >= high)
InvalidCornersNoCross(cfg) ==
    \/ LowCorner(cfg).num <= 0
    \/ HighCorner(cfg).num >= HighCorner(cfg).den

\* if low <= 0 or high >= 1 or low >= high
InvalidCorners(cfg) ==
    LET low == LowCorner(cfg)
        high == HighCorner(cfg)
    IN  \/ low.num <= 0
        \/ high.num >= high.den
        \/ ~RGreater(high, low)

\* filtfilt's default padlen is 3 * max(len(a), len(b)), and a band-pass of order
\* N has 2N + 1 coefficients; filtfilt raises ValueError unless len(x) > padlen
FiltfiltPadlen(order) == 3 * (2 * order + 1)

\* what filtfilt(b, a, data) can return: some signal of the same length
FilterOutputs(data) == {y \in Signals : Len(y) = Len(data)}

\* the values butter_bandpass_filter(data) can return (FilterRaises excluded)
butter_bandpass_filter(cfg, data) ==
    IF InvalidCorners(cfg)
    THEN {data}
    ELSE IF Len(data.data) < cfg.FILTER_ORDER * 3
    THEN {data}
    ELSE IF Len(data.data) <= FiltfiltPadlen(cfg.FILTER_ORDER)
    THEN {data}   \* except ValueError: return data
    ELSE {Array(y) : y \in FilterOutputs(data.data)}

(***************************************************************************)
(* detect_r_peaks                                                          *)
(***************************************************************************)
RECURSIVE SumSeq(_)
SumSeq(x) == IF x = <<>> THEN 0 ELSE Head(x) + SumSeq(Tail(x))

SumSquares(x) == SumSeq([i \in 1..Len(x) |-> x[i] * x[i]])

\* the k-th smallest sample of x (k in 1..Len(x))
KthSmallest(x, k) ==
    CHOOSE v \in {x[i] : i \in 1..Len(x)} :
        /\ Cardinality({i \in 1..Len(x) : x[i] < v}) < k
        /\ Cardinality({i \in 1..Len(x) : x[i] <= v}) >= k

\* twice np.median(x): the middle sample, or the mean of the two middle ones
Median2(x) ==
    LET n == Len(x)
    IN  IF n % 2 = 1
        THEN 2 * KthSmallest(x, (n + 1) \div 2)
        ELSE KthSmallest(x, n \div 2) + KthSmallest(x, n \div 2 + 1)

\* n^2 times the population variance np.std(x)^2
VarianceN2(x) == Len(x) * SumSquares(x) - SumSeq(x) * SumSeq(x)

\* v >= median + PEAK_HEIGHT_THRESHOLD_MULTIPLIER * std_dev (find_peaks keeps
\* heights >= the threshold), with both sides of v - median >= m * std squared;
\* exact arithmetic, where the code compares floating-point values
AtLeastThreshold(x, v) ==
    LET d2 == 2 * v - Median2(x)
    IN  /\ d2 >= 0
        /\ ThresholdDen * ThresholdDen * d2 * d2 * Len(x) * Len(x)
              >= 4 * ThresholdNum * ThresholdNum * VarianceN2(x)

SeqMax(x) == CHOOSE v \in {x[i] : i \in 1..Len(x)} : \A i \in 1..Len(x) : x[i] <= v

SeqMin(x) == CHOOSE v \in {x[i] : i \in 1..Len(x)} : \A i \in 1..Len(x) : x[i] >= v

\* scipy's _local_maxima_1d: the 0-based midpoints of the plateaus that rise on
\* the left and fall on the right; the first and last sample are never peaks
LocalMaxima(x) ==
    {(l + r) \div 2 : <<l, r>> \in
        {e \in (1..Len(x) - 2) \X (1..Len(x) - 2) :
            /\ e[1] <= e[2]
            /\ x[e[1]] < x[e[1] + 1]
            /\ \A i \in e[1]..e[2] : x[i + 1] = x[e[1] + 1]
            /\ x[e[2] + 2] < x[e[2] + 1]}}

\* scipy's _select_by_peak_distance: peaks are visited from the highest priority
\* (height) down; a visited peak that is still kept removes every peak closer
\* than distance.  np.argsort does not fix the order of equal heights, so the
\* result is the set of keep-sets over every order of visiting equal heights.
RECURSIVE SelectByPeakDistance(_, _, _, _)
SelectByPeakDistance(x, keep, todo, distance) ==
    IF todo = {}
    THEN {keep}
    ELSE LET top == CHOOSE h \in {x[j + 1] : j \in todo} :
                        \A j \in todo : x[j + 1] <= h
         IN  UNION {SelectByPeakDistance(
                        x,
                        IF j \in keep
                        THEN {k \in keep : k = j \/ Abs(k - j) >= distance}
                        ELSE keep,
                        todo \ {j},
                        distance) : j \in {k \in todo : x[k + 1] = top}}

RECURSIVE SortedSeq(_)
SortedSeq(S) ==
    IF S = {}
    THEN <<>>
    ELSE LET m == CHOOSE v \in S : \A w \in S : v <= w
         IN  <<m>> \o SortedSeq(S \ {m})


\* find_peaks called without distance=: every candidate is a peak
find_peaksNoDistance(x, distance) ==
    {SortedSeq({p \in LocalMaxima(x) : AtLeastThreshold(x, x[p + 1])})}

\* a selection that visits the lowest peaks first
find_peaksLowestFirst(x, distance) ==
    LET cands == {p \in LocalMaxima(x) : AtLeastThreshold(x, x[p + 1])}
    IN  {SortedSeq(K) :
            K \in SelectByPeakDistance([i \in 1..Len(x) |-> 0 - x[i]],
                                       cands, cands, distance)}

\* find_peaks(x, height=threshold, distance=distance): the possible peak arrays
find_peaks(x, distance) ==
    LET cands == {p \in LocalMaxima(x) : AtLeastThreshold(x, x[p + 1])}
    IN  {SortedSeq(K) : K \in SelectByPeakDistance(x, cands, cands, distance)}


\* round(SAMPLING_RATE_HZ * 60 / MAX_HR): to the nearest integer instead of int()
PeakDistanceRounded(cfg) ==
    (2 * cfg.SAMPLING_RATE_HZ * 60 + cfg.MAX_HR_BPM_FOR_PEAK_DISTANCE)
        \div (2 * cfg.MAX_HR_BPM_FOR_PEAK_DISTANCE)

\* int(SAMPLING_RATE_HZ * (60.0 / MAX_HR_BPM_FOR_PEAK_DISTANCE)): int() drops the
\* fraction (rate and max heart rate positive).  The exact quotient is used; the
\* floating-point product equals it at every rate and heart rate explored here
\* (it can fall one short where 60 / max_hr is inexact and the exact product is
\* an integer, e.g. 11 Hz at 22 bpm)
PeakDistanceRaw(cfg) ==
    (cfg.SAMPLING_RATE_HZ * 60) \div cfg.MAX_HR_BPM_FOR_PEAK_DISTANCE

\* min_distance_samples after max(1, .) and min(., len(signal) - 1)
MinDistanceSamples(cfg, n) == Min(Max(1, PeakDistanceRaw(cfg)), n - 1)

\* the value of the local min_distance_samples when detect_r_peaks returns
\* (0 when it returns before computing it)
DetectMinDistance(cfg, sig) ==
    IF sig.isNone \/ Len(sig.data) = 0
    THEN 0
    ELSE IF SeqMax(sig.data) = SeqMin(sig.data)
    THEN 0
    ELSE IF cfg.SAMPLING_RATE_HZ <= 0
    THEN 0
    ELSE MinDistanceSamples(cfg, Len(sig.data))

\* the arrays detect_r_peaks(filtered_ecg_signal) can return
detect_r_peaks(cfg, sig) ==
    IF sig.isNone \/ Len(sig.data) = 0
    THEN {Array(<<>>)}
    ELSE IF SeqMax(sig.data) = SeqMin(sig.data)      \* max - min < 1e-6
    THEN {Array(<<>>)}
    ELSE IF cfg.SAMPLING_RATE_HZ <= 0
    THEN {Array(<<>>)}
    ELSE IF MinDistanceSamples(cfg, Len(sig.data)) <= 0
    THEN {Array(<<>>)}
    ELSE {Array(p) :
            p \in find_peaks(sig.data, MinDistanceSamples(cfg, Len(sig.data)))}

(***************************************************************************)
(* calculate_rr_intervals                                                  *)
(***************************************************************************)
\* np.diff(r_peaks_indices)
Diff(x) == [i \in 1..Len(x) - 1 |-> x[i + 1] - x[i]]


\* a conversion that leaves the intervals in seconds
SamplesToSeconds(cfg, samples) == Rat(samples, cfg.SAMPLING_RATE_HZ)

\* (rr_intervals_samples / SAMPLING_RATE_HZ) * 1000, in milliseconds
SamplesToMs(cfg, samples) == Rat(samples * 1000, cfg.SAMPLING_RATE_HZ)

calculate_rr_intervals(cfg, peaks) ==
    IF peaks.isNone \/ Len(peaks.data) < 2
    THEN Array(<<>>)
    ELSE IF cfg.SAMPLING_RATE_HZ <= 0
    THEN Array(<<>>)
    ELSE Array([i \in 1..Len(peaks.data) - 1 |->
                   SamplesToMs(cfg, Diff(peaks.data)[i])])

(***************************************************************************)
(* calculate_hrv_metrics                                                   *)
(***************************************************************************)
MetricKeys ==
    {"Mean_RR_ms", "SDNN_ms", "RMSSD_ms", "pNN50_percent", "Mean_Heart_Rate_BPM"}

\* np.nan
NaN == [nan |-> TRUE, sqrt |-> FALSE, num |-> 0, den |-> 1]

\* the number r
Value(r) == [nan |-> FALSE, sqrt |-> FALSE, num |-> r.num, den |-> r.den]

\* the number sqrt(r)
SqrtOf(r) == [nan |-> FALSE, sqrt |-> TRUE, num |-> r.num, den |-> r.den]

\* np.mean(x), x not empty
Mean(x) == RDivInt(RSum(x), Len(x))

\* np.diff of a series of rationals
RDiff(x) == [i \in 1..Len(x) - 1 |-> RSub(x[i + 1], x[i])]

\* np.mean(x ** 2)
MeanSquare(x) == Mean([i \in 1..Len(x) |-> RMul(x[i], x[i])])

\* np.std(x) ** 2: the mean squared deviation from the mean
Variance(x) == MeanSquare([i \in 1..Len(x) |-> RSub(x[i], Mean(x))])

\* np.sum(np.abs(diff_rr) > 50)
NN50(d) ==
    Cardinality({i \in 1..Len(d) :
                    RGreater([num |-> Abs(d[i].num), den |-> d[i].den], Rat(50, 1))})


\* a short-series dictionary that lacks the heart rate
UndefinedMetricsMissingKey ==
    [k \in MetricKeys \ {"Mean_Heart_Rate_BPM"} |-> NaN]

\* a short-series dictionary that reports a heart rate of 0 instead of np.nan
UndefinedMetricsZeroRate ==
    [k \in MetricKeys |->
        IF k = "Mean_Heart_Rate_BPM" THEN Value(Rat(0, 1)) ELSE NaN]

\* the dictionary returned when fewer than two RR intervals are given
UndefinedMetrics == [k \in MetricKeys |-> NaN]

calculate_hrv_metrics(rr) ==
    IF rr.isNone \/ Len(rr.data) < 2
    THEN UndefinedMetrics
    ELSE LET x == rr.data
             diff_rr == RDiff(x)
         IN  [k \in MetricKeys |->
                CASE k = "Mean_RR_ms" -> Value(Mean(x))
                  [] k = "SDNN_ms" -> SqrtOf(Variance(x))
                  [] k = "RMSSD_ms" -> SqrtOf(MeanSquare(diff_rr))
                  [] k = "pNN50_percent" ->
                        IF Len(diff_rr) > 0
                        THEN Value(Rat(NN50(diff_rr) * 100, Len(diff_rr)))
                        ELSE Value(Rat(0, 1))
                  [] k = "Mean_Heart_Rate_BPM" ->
                        IF Mean(x).num > 0
                        THEN Value(Rat(60000 * Mean(x).den, Mean(x).num))
                        ELSE NaN]

(***************************************************************************)
(* The stage functions called on their own                                 *)
(***************************************************************************)
NoMetrics == [k \in {} |-> 0]

InitFilter ==
    /\ config \in {Config(fs, c[1], c[2], o, DefaultMaxHr) :
                      fs \in Rates, c \in Cuts, o \in Orders}
    /\ raw_ecg_signal \in {Array(s) : s \in Signals}
    /\ pc = "call_butter_bandpass_filter"
    /\ filtered_ecg = None
    /\ min_distance = 0
    /\ r_peaks = None
    /\ rr_intervals = None
    /\ hrv_metrics = NoMetrics
    /\ calls = <<>>
    /\ result = [kind |-> "none"]

UnitFilter ==
    /\ pc = "call_butter_bandpass_filter"
    /\ ~FilterRaises(config)
    /\ \E y \in butter_bandpass_filter(config, raw_ecg_signal) :
          /\ filtered_ecg' = y
          /\ result' = [kind |-> "returned"]
    /\ pc' = "ret_butter_bandpass_filter"
    /\ UNCHANGED <<config, raw_ecg_signal, min_distance, r_peaks, rr_intervals,
                   hrv_metrics, calls>>

UnitFilterRaises ==
    /\ pc = "call_butter_bandpass_filter"
    /\ FilterRaises(config)
    /\ result' = [kind |-> "raised", exc |-> "ZeroDivisionError"]
    /\ pc' = "ret_butter_bandpass_filter"
    /\ UNCHANGED <<config, raw_ecg_signal, filtered_ecg, min_distance, r_peaks,
                   rr_intervals, hrv_metrics, calls>>

NextFilter == UnitFilter \/ UnitFilterRaises

SpecFilter == InitFilter /\ [][NextFilter]_vars

\* every sequence over 0..PeakAmpMax of length 0..MaxSigLen
PeakSignals == UNION {[1..n -> 0..PeakAmpMax] : n \in 0..MaxSigLen}

InitPeaks ==
    /\ config \in {Config(fs, DefaultLowcut, DefaultHighcut, DefaultOrder, 60) :
                      fs \in 1..MaxPeakRate}
    /\ filtered_ecg \in {Array(s) : s \in PeakSignals}
    /\ pc = "call_detect_r_peaks"
    /\ raw_ecg_signal = None
    /\ min_distance = 0
    /\ r_peaks = None
    /\ rr_intervals = None
    /\ hrv_metrics = NoMetrics
    /\ calls = <<>>
    /\ result = [kind |-> "none"]

UnitDetect ==
    /\ pc = "call_detect_r_peaks"
    /\ \E p \in detect_r_peaks(config, filtered_ecg) : r_peaks' = p
    /\ min_distance' = DetectMinDistance(config, filtered_ecg)
    /\ result' = [kind |-> "returned"]
    /\ pc' = "ret_detect_r_peaks"
    /\ UNCHANGED <<config, raw_ecg_signal, filtered_ecg, rr_intervals,
                   hrv_metrics, calls>>

NextPeaks == UnitDetect

SpecPeaks == InitPeaks /\ [][NextPeaks]_vars

\* the strictly ascending sequences of peak indices 0..MaxPeakIdx
AscendingPeaks == {SortedSeq(S) : S \in SUBSET (0..MaxPeakIdx)}

\* beats one second apart at the shipped rate of 250 Hz
ExamplePeaks == <<100, 350, 600, 850>>

InitRR ==
    /\ config \in {Config(fs, DefaultLowcut, DefaultHighcut, DefaultOrder, DefaultMaxHr) :
                      fs \in Rates \cup {DefaultRate}}
    /\ r_peaks \in {None} \cup {Array(p) : p \in AscendingPeaks \cup {ExamplePeaks}}
    /\ pc = "call_calculate_rr_intervals"
    /\ raw_ecg_signal = None
    /\ filtered_ecg = None
    /\ min_distance = 0
    /\ rr_intervals = None
    /\ hrv_metrics = NoMetrics
    /\ calls = <<>>
    /\ result = [kind |-> "none"]

UnitRR ==
    /\ pc = "call_calculate_rr_intervals"
    /\ rr_intervals' = calculate_rr_intervals(config, r_peaks)
    /\ result' = [kind |-> "returned"]
    /\ pc' = "ret_calculate_rr_intervals"
    /\ UNCHANGED <<config, raw_ecg_signal, filtered_ecg, min_distance, r_peaks,
                   hrv_metrics, calls>>

NextRR == UnitRR

SpecRR == InitRR /\ [][NextRR]_vars

\* RR intervals in milliseconds: steady, and differing by less and by more than 50
RRValues == {Rat(600, 1), Rat(1000, 1), Rat(1040, 1), Rat(2125, 2)}

RRSeries == UNION {[1..n -> RRValues] : n \in 0..MaxRRLen}

InitUnitHrv ==
    /\ config = DefaultConfig
    /\ rr_intervals \in {None} \cup {Array(x) : x \in RRSeries}
    /\ pc = "call_calculate_hrv_metrics"
    /\ raw_ecg_signal = None
    /\ filtered_ecg = None
    /\ min_distance = 0
    /\ r_peaks = None
    /\ hrv_metrics = NoMetrics
    /\ calls = <<>>
    /\ result = [kind |-> "none"]

UnitHrv ==
    /\ pc = "call_calculate_hrv_metrics"
    /\ hrv_metrics' = calculate_hrv_metrics(rr_intervals)
    /\ result' = [kind |-> "returned"]
    /\ pc' = "ret_calculate_hrv_metrics"
    /\ UNCHANGED <<config, raw_ecg_signal, filtered_ecg, min_distance, r_peaks,
                   rr_intervals, calls>>

(***************************************************************************)
(* process_ecg_data                                                        *)
(***************************************************************************)
\* return None, None, None, {}
AbortResult ==
    [kind |-> "returned", filtered_ecg |-> None, r_peaks |-> None,
     rr_intervals |-> None, hrv_metrics |-> NoMetrics]

\* if raw_ecg_signal is None or len(raw_ecg_signal) == 0
NoData(raw) == raw.isNone \/ Len(raw.data) = 0

\* the nested test: len < SAMPLING_RATE_HZ * 2, and inside it len < FILTER_ORDER * 3
TooShort(cfg, raw) ==
    /\ Len(raw.data) < cfg.SAMPLING_RATE_HZ * 2
    /\ Len(raw.data) < cfg.FILTER_ORDER * 3

PipelineConfigs ==
    {Config(fs, c[1], c[2], o, hr) :
        fs \in Rates, c \in Cuts, o \in Orders, hr \in {60, DefaultMaxHr}}
    \cup {DefaultConfig}

Init ==
    /\ config \in PipelineConfigs
    /\ raw_ecg_signal \in {None} \cup {Array(s) : s \in Signals}
    /\ pc = "start"
    /\ filtered_ecg = None
    /\ min_distance = 0
    /\ r_peaks = None
    /\ rr_intervals = None
    /\ hrv_metrics = NoMetrics
    /\ calls = <<>>
    /\ result = [kind |-> "none"]

AbortNoData ==
    /\ pc = "start"
    /\ NoData(raw_ecg_signal)
    /\ result' = AbortResult
    /\ pc' = "done"
    /\ UNCHANGED <<config, raw_ecg_signal, filtered_ecg, min_distance, r_peaks,
                   rr_intervals, hrv_metrics, calls>>

AbortTooShort ==
    /\ pc = "start"
    /\ ~NoData(raw_ecg_signal)
    /\ TooShort(config, raw_ecg_signal)
    /\ result' = AbortResult
    /\ pc' = "done"
    /\ UNCHANGED <<config, raw_ecg_signal, filtered_ecg, min_distance, r_peaks,
                   rr_intervals, hrv_metrics, calls>>

\* filtered_ecg = butter_bandpass_filter(raw_ecg_signal)
RunFilter ==
    /\ pc = "start"
    /\ ~NoData(raw_ecg_signal)
    /\ ~TooShort(config, raw_ecg_signal)
    /\ ~FilterRaises(config)
    /\ calls' = Append(calls, "butter_bandpass_filter")
    /\ \E y \in butter_bandpass_filter(config, raw_ecg_signal) : filtered_ecg' = y
    /\ pc' = "detect"
    /\ UNCHANGED <<config, raw_ecg_signal, min_distance, r_peaks, rr_intervals,
                   hrv_metrics, result>>

\* the filter's division by a zero Nyquist frequency leaves process_ecg_data
RunFilterRaises ==
    /\ pc = "start"
    /\ ~NoData(raw_ecg_signal)
    /\ ~TooShort(config, raw_ecg_signal)
    /\ FilterRaises(config)
    /\ calls' = Append(calls, "butter_bandpass_filter")
    /\ result' = [kind |-> "raised", exc |-> "ZeroDivisionError"]
    /\ pc' = "done"
    /\ UNCHANGED <<config, raw_ecg_signal, filtered_ecg, min_distance, r_peaks,
                   rr_intervals, hrv_metrics>>

\* r_peaks = detect_r_peaks(filtered_ecg)
RunDetect ==
    /\ pc = "detect"
    /\ calls' = Append(calls, "detect_r_peaks")
    /\ \E p \in detect_r_peaks(config, filtered_ecg) : r_peaks' = p
    /\ min_distance' = DetectMinDistance(config, filtered_ecg)
    /\ pc' = "branch"
    /\ UNCHANGED <<config, raw_ecg_signal, filtered_ecg, rr_intervals,
                   hrv_metrics, result>>


\* a short-peaks branch that calls calculate_rr_intervals like the other branch
FewPeaksCallingIntervals ==
    /\ pc = "branch"
    /\ Len(r_peaks.data) < 2
    /\ calls' = Append(calls, "calculate_rr_intervals")
    /\ rr_intervals' = calculate_rr_intervals(config, r_peaks)
    /\ pc' = "metrics"
    /\ UNCHANGED <<config, raw_ecg_signal, filtered_ecg, min_distance, r_peaks,
                   hrv_metrics, result>>

\* if len(r_peaks) < 2: rr_intervals = np.array([])
FewPeaks ==
    /\ pc = "branch"
    /\ Len(r_peaks.data) < 2
    /\ rr_intervals' = Array(<<>>)
    /\ pc' = "metrics"
    /\ UNCHANGED <<config, raw_ecg_signal, filtered_ecg, min_distance, r_peaks,
                   hrv_metrics, calls, result>>

\* else: rr_intervals = calculate_rr_intervals(r_peaks)
RunIntervals ==
    /\ pc = "branch"
    /\ Len(r_peaks.data) >= 2
    /\ calls' = Append(calls, "calculate_rr_intervals")
    /\ rr_intervals' = calculate_rr_intervals(config, r_peaks)
    /\ pc' = "metrics"
    /\ UNCHANGED <<config, raw_ecg_signal, filtered_ecg, min_distance, r_peaks,
                   hrv_metrics, result>>

\* hrv_metrics = calculate_hrv_metrics(rr_intervals), in either branch, and
\* return filtered_ecg, r_peaks, rr_intervals, hrv_metrics
RunMetrics ==
    /\ pc = "metrics"
    /\ calls' = Append(calls, "calculate_hrv_metrics")
    /\ hrv_metrics' = calculate_hrv_metrics(rr_intervals)
    /\ result' = [kind |-> "returned", filtered_ecg |-> filtered_ecg,
                  r_peaks |-> r_peaks, rr_intervals |-> rr_intervals,
                  hrv_metrics |-> calculate_hrv_metrics(rr_intervals)]
    /\ pc' = "done"
    /\ UNCHANGED <<config, raw_ecg_signal, filtered_ecg, min_distance, r_peaks,
                   rr_intervals>>

Next ==
    \/ AbortNoData
    \/ AbortTooShort
    \/ RunFilter
    \/ RunFilterRaises
    \/ RunDetect
    \/ FewPeaks
    \/ RunIntervals
    \/ RunMetrics

Spec == Init /\ [][Next]_vars

\* process_ecg_data, and calculate_hrv_metrics called on its own
InitHRV == Init \/ InitUnitHrv

NextHRV == Next \/ UnitHrv

SpecHRV == InitHRV /\ [][NextHRV]_vars

\* detect_r_peaks on its own over many rates and maximum heart rates, on the
\* alternating signal 0, 1, 0, 1, ... of every length
InitDistance ==
    /\ config \in {Config(fs, DefaultLowcut, DefaultHighcut, DefaultOrder, hr) :
                      fs \in 1..MaxRate, hr \in {20, 45, 60, 100, DefaultMaxHr}}
    /\ filtered_ecg \in {Array(Tile(<<0, 1>>, n)) : n \in 0..MaxLen}
    /\ pc = "call_detect_r_peaks"
    /\ raw_ecg_signal = None
    /\ min_distance = 0
    /\ r_peaks = None
    /\ rr_intervals = None
    /\ hrv_metrics = NoMetrics
    /\ calls = <<>>
    /\ result = [kind |-> "none"]

SpecDistance == InitDistance /\ [][NextPeaks]_vars

(***************************************************************************)
(* Properties                                                              *)
(***************************************************************************)
Returned == pc = "done" /\ result.kind = "returned"

\* a result with all four fields present and the five metrics
FullResult(r) ==
    /\ ~r.filtered_ecg.isNone
    /\ ~r.r_peaks.isNone
    /\ ~r.rr_intervals.isNone
    /\ DOMAIN r.hrv_metrics = MetricKeys
    /\ \A k \in MetricKeys : r.hrv_metrics[k].nan \in BOOLEAN

AllUndefined(m) == DOMAIN m = MetricKeys /\ \A k \in MetricKeys : m[k] = NaN

\* C1 (as the claim states it, at positive sampling rates): once
\* process_ecg_data has looked at a buffer shorter than FILTER_ORDER * 3 no stage
\* has been invoked, and it returns the abort result
C1_ShortBufferAborts ==
    (/\ pc # "start"
     /\ config.SAMPLING_RATE_HZ > 0
     /\ ~raw_ecg_signal.isNone
     /\ Len(raw_ecg_signal.data) < config.FILTER_ORDER * 3)
    => /\ calls = <<>>
       /\ pc = "done" => result = AbortResult

\* C2 (as the claim states it): with a non-positive SAMPLING_RATE_HZ no stage is
\* ever invoked and no result carrying a filtered signal or a peak set is returned
C2_NonPositiveRateAborts ==
    config.SAMPLING_RATE_HZ <= 0
    => /\ calls = <<>>
       /\ Returned => result.filtered_ecg.isNone /\ result.r_peaks.isNone

\* C3: every return of process_ecg_data is the abort result (all three arrays
\* absent, no metrics) or a full result (all three arrays present and exactly the
\* five metric keys); no return mixes the two
C3_ResultAllOrNothing ==
    Returned => result = AbortResult \/ FullResult(result)

\* C3 witness: a full result whose metrics are all undefined was returned
C3_Witness ==
    /\ Returned
    /\ FullResult(result)
    /\ Len(result.r_peaks.data) = 1
    /\ AllUndefined(result.hrv_metrics)

\* C4 (as the claim states it, at positive sampling rates): every run that
\* returns a full result has invoked all four stages, in order
C4_AllStagesAlwaysInvoked ==
    (Returned /\ result # AbortResult /\ config.SAMPLING_RATE_HZ > 0)
    => calls = <<"butter_bandpass_filter", "detect_r_peaks",
                 "calculate_rr_intervals", "calculate_hrv_metrics">>

\* C4 amended: every run that returns a full result has invoked the filter, the
\* peak detector and the metrics calculator in that order, and has invoked
\* calculate_rr_intervals between the last two exactly when two or more peaks
\* were detected
C4_StagesInOrder ==
    (Returned /\ result # AbortResult)
    => calls = <<"butter_bandpass_filter", "detect_r_peaks">>
               \o (IF Len(r_peaks.data) >= 2
                   THEN <<"calculate_rr_intervals">>
                   ELSE <<>>)
               \o <<"calculate_hrv_metrics">>

\* C4 witness: a run with a single peak returned without calculate_rr_intervals
C4_Witness ==
    /\ Returned
    /\ config.SAMPLING_RATE_HZ > 0
    /\ Len(r_peaks.data) = 1
    /\ calls = <<"butter_bandpass_filter", "detect_r_peaks", "calculate_hrv_metrics">>

DetectReturned == pc = "ret_detect_r_peaks"

\* the candidates of detect_r_peaks: local maxima at or above the threshold
Candidates(x) == {p \in LocalMaxima(x) : AtLeastThreshold(x, x[p + 1])}

PeakSet == {r_peaks.data[i] : i \in 1..Len(r_peaks.data)}

\* C5: the array detect_r_peaks returns is strictly ascending, holds only valid
\* indices of the signal, and its consecutive indices differ by at least the
\* min_distance_samples computed for the signal
C5_PeaksAscendingAndSpaced ==
    DetectReturned
    => /\ ~r_peaks.isNone
       /\ \A i \in 1..Len(r_peaks.data) :
             r_peaks.data[i] \in 0..Len(filtered_ecg.data) - 1
       /\ \A i \in 1..Len(r_peaks.data) - 1 :
             /\ r_peaks.data[i] < r_peaks.data[i + 1]
             /\ min_distance >= 1
             /\ r_peaks.data[i + 1] - r_peaks.data[i] >= min_distance

\* C5 witness: two peaks were returned under a spacing of at least 2 after a
\* closer candidate was dropped
C5_Witness ==
    /\ DetectReturned
    /\ Len(r_peaks.data) >= 2
    /\ min_distance >= 2
    /\ Cardinality(Candidates(filtered_ecg.data)) > Len(r_peaks.data)

\* C6: called at a sampling rate other than 0, butter_bandpass_filter returns its
\* input unchanged, without raising, whenever low <= 0, high >= 1 or low >= high
\* (low = lowcut / (fs / 2), high = highcut / (fs / 2)), or the input has fewer
\* than FILTER_ORDER * 3 samples
C6_FilterPassThrough ==
    LET fs == config.SAMPLING_RATE_HZ
        lo == config.FILTER_LOWCUT_HZ
        hi == config.FILTER_HIGHCUT_HZ
    IN  (/\ pc = "ret_butter_bandpass_filter"
         /\ fs # 0
         /\ \/ lo * fs <= 0
            \/ (fs > 0 /\ hi >= fs) \/ (fs < 0 /\ hi <= fs)
            \/ (lo - hi) * fs >= 0
            \/ Len(raw_ecg_signal.data) < config.FILTER_ORDER * 3)
        => result.kind = "returned" /\ filtered_ecg = raw_ecg_signal

\* C6 witness: the crossed band 40 Hz / 0.5 Hz, otherwise valid, on a buffer
\* long enough to be filtered, came back unchanged
C6_Witness ==
    /\ pc = "ret_butter_bandpass_filter"
    /\ config.FILTER_LOWCUT_HZ = DefaultHighcut
    /\ config.FILTER_HIGHCUT_HZ = DefaultLowcut
    /\ config.SAMPLING_RATE_HZ > 0
    /\ Len(raw_ecg_signal.data) > FiltfiltPadlen(config.FILTER_ORDER)
    /\ filtered_ecg = raw_ecg_signal

\* C7: at a positive sampling rate calculate_rr_intervals returns, for n
\* ascending peaks (n = 0 for None), max(n - 1, 0) intervals, the i-th equal to
\* (peak[i+1] - peak[i]) / SAMPLING_RATE_HZ * 1000; the peaks 100, 350, 600, 850
\* at 250 Hz give 1000, 1000, 1000
C7_RRIntervals ==
    LET n == IF r_peaks.isNone THEN 0 ELSE Len(r_peaks.data)
        fs == config.SAMPLING_RATE_HZ
    IN  (pc = "ret_calculate_rr_intervals" /\ fs > 0)
        => /\ result.kind = "returned"
           /\ ~rr_intervals.isNone
           /\ Len(rr_intervals.data) = Max(n - 1, 0)
           /\ \A i \in 1..Len(rr_intervals.data) :
                 /\ rr_intervals.data[i].den > 0
                 /\ rr_intervals.data[i].num * fs
                      = (r_peaks.data[i + 1] - r_peaks.data[i]) * 1000
                           * rr_intervals.data[i].den
           /\ (r_peaks = Array(ExamplePeaks) /\ fs = DefaultRate)
                 => rr_intervals.data
                      = <<[num |-> 1000, den |-> 1], [num |-> 1000, den |-> 1],
                          [num |-> 1000, den |-> 1]>>

\* C7 witness: the example peaks at 250 Hz were converted
C7_Witness ==
    /\ pc = "ret_calculate_rr_intervals"
    /\ r_peaks = Array(ExamplePeaks)
    /\ config.SAMPLING_RATE_HZ = DefaultRate
    /\ Len(rr_intervals.data) = 3

\* C8: calculate_hrv_metrics returns all five metrics undefined for a series of
\* length 0 or 1 and for None, and a run of process_ecg_data that detected 0, 1
\* or 2 peaks returns all five metrics undefined
C8_ShortSeriesUndefined ==
    /\ (/\ pc = "ret_calculate_hrv_metrics"
        /\ (rr_intervals.isNone \/ Len(rr_intervals.data) <= 1))
       => result.kind = "returned" /\ AllUndefined(hrv_metrics)
    /\ (Returned /\ result # AbortResult /\ Len(r_peaks.data) <= 2)
       => AllUndefined(result.hrv_metrics)

\* C8 witness: a run that detected exactly two peaks, hence one RR interval,
\* returned undefined metrics
C8_Witness ==
    /\ Returned
    /\ result # AbortResult
    /\ Len(result.r_peaks.data) = 2
    /\ Len(result.rr_intervals.data) = 1
    /\ AllUndefined(result.hrv_metrics)

\* min(max(q, 1), n - 1)
Clamp(q, n) == IF q < 1 THEN Min(1, n - 1) ELSE Min(q, n - 1)

\* the integer nearest to a / b (a, b > 0, a / b not half way between two)
RoundNearest(a, b) == CHOOSE q \in 0..a : 2 * Abs(a - q * b) < b \/ 2 * Abs(a - q * b) = b

\* the integer part of a / b (a, b > 0)
IntegerPart(a, b) == CHOOSE q \in 0..a : q * b <= a /\ a < (q + 1) * b

DistanceComputed ==
    /\ DetectReturned
    /\ Len(filtered_ecg.data) >= 2
    /\ SeqMax(filtered_ecg.data) # SeqMin(filtered_ecg.data)

\* C9 (as the claim states it): the spacing detect_r_peaks uses is
\* SAMPLING_RATE_HZ * 60 / MAX_HR rounded to the nearest integer, then clamped to
\* 1..len - 1
C9_DistanceRounded ==
    DistanceComputed
    => min_distance
         = Clamp(RoundNearest(config.SAMPLING_RATE_HZ * 60,
                              config.MAX_HR_BPM_FOR_PEAK_DISTANCE),
                 Len(filtered_ecg.data))

\* C9 amended: the spacing detect_r_peaks uses is the integer part of
\* SAMPLING_RATE_HZ * 60 / MAX_HR (the fraction is dropped, not rounded), then
\* clamped to 1..len - 1
C9_DistanceTruncated ==
    DistanceComputed
    => min_distance
         = Clamp(IntegerPart(config.SAMPLING_RATE_HZ * 60,
                             config.MAX_HR_BPM_FOR_PEAK_DISTANCE),
                 Len(filtered_ecg.data))

\* C9 witness: 2 Hz and 45 bpm (quotient 2.67) on a signal long enough not to
\* clamp gave a spacing of 2
C9_Witness ==
    /\ DistanceComputed
    /\ config.SAMPLING_RATE_HZ = 2
    /\ config.MAX_HR_BPM_FOR_PEAK_DISTANCE = 45
    /\ Len(filtered_ecg.data) > 3
    /\ min_distance = 2

\* candidates p, q closer together than the spacing used
Close(p, q) == p # q /\ Abs(p - q) < min_distance

\* C10 (as the claim states it): of two candidates closer than
\* min_distance_samples the higher is kept and the other discarded, and of two
\* equally high ones the one with the lower index is kept
C10_HigherThenLowerIndexKept ==
    DetectReturned
    => \A p, q \in Candidates(filtered_ecg.data) :
          (Close(p, q) /\
             \/ filtered_ecg.data[p + 1] > filtered_ecg.data[q + 1]
             \/ (filtered_ecg.data[p + 1] = filtered_ecg.data[q + 1] /\ p < q))
          => p \in PeakSet /\ q \notin PeakSet

\* C10 amended: of two candidates closer than min_distance_samples at most one
\* is kept; a candidate higher than every other candidate closer than
\* min_distance_samples to it is kept; and a candidate is discarded only when a
\* kept candidate at least as high lies closer than min_distance_samples to it
\* (between equally high candidates either index may be the one kept)
C10_GreedySuppression ==
    (DetectReturned /\ min_distance >= 1)
    => LET x == filtered_ecg.data
           C == Candidates(x)
       IN  /\ PeakSet \subseteq C
           /\ \A p, q \in PeakSet : ~Close(p, q)
           /\ \A p \in C :
                 (\A q \in C : Close(p, q) => x[q + 1] < x[p + 1])
                 => p \in PeakSet
           /\ \A p \in C \ PeakSet :
                 \E q \in PeakSet : Close(p, q) /\ x[q + 1] >= x[p + 1]

\* C10 witness: of two candidates closer than the spacing the higher one was
\* kept and the lower one discarded
C10_Witness ==
    /\ DetectReturned
    /\ \E p, q \in Candidates(filtered_ecg.data) :
          /\ Close(p, q)
          /\ filtered_ecg.data[p + 1] > filtered_ecg.data[q + 1]
          /\ p \in PeakSet
          /\ q \notin PeakSet

====
